---- MODULE Spec2Model ----
(***************************************************************************)
(* Trace-context core of opentelemetry-go: the W3C Trace Context           *)
(* propagator (propagators/trace_context.go), parent resolution            *)
(* (internal/trace/parent/parent.go), the span-start contract the tracer   *)
(* tests exercise (oteltest tracer tests), and the OpenTracing bridge      *)
(* (bridge/opentracing) that calls into them.                              *)
(*                                                                         *)
(* Header values are sequences of one-character strings, identifiers are   *)
(* sequences of bytes (0..255), so formatting and parsing are real         *)
(* conversions.  In trace_context.go the span reference of extract/Inject  *)
(* is spelled both `sc` and `sr`; the model reads them as one variable.    *)
(***************************************************************************)
EXTENDS Integers, Sequences, FiniteSets, TLC

VARIABLES
    ctx,        \* the ambient context: current span, remote reference, tracestate
    last,       \* the last call: its name, the context and the carrier (header
                \* key -> sequence of characters) it was given, and its result
    counter,    \* the tracer's identifier generator (last identifier handed out)
    started,    \* the span recorder's list of started spans
    mutex,      \* the span recorder's lock: its holder, or NoOwner
    pc,         \* each goroutine's position inside Start
    local,      \* each goroutine's locals inside Start
    bridge,     \* the BridgeTracer: its tracer holder (setTracer) and warnOnce
    warnings,   \* the messages the bridge's warning handler has received
    refs,       \* the heap of bridgeSpanReference objects; an address is an index
    bspans,     \* the bridge spans StartSpan has returned
    bcalls      \* each goroutine's bridge call in progress and pending stores

vars == <<ctx, last, counter, started, mutex, pc, local,
          bridge, warnings, refs, bspans, bcalls>>

----------------------------------------------------------------------------
(* Bounds of the model *)

\* Number of span-start calls of the sequential tracer specification.
MaxSpans == 3
\* Number of goroutines calling Start concurrently (numSpans in the test).
NumGoroutines == 2
\* Number of Start calls the goroutines issue in all.
MaxCalls == 3
\* Number of spans started through the bridge.
MaxBridgeSpans == 2
\* Length of the list of OpenTracing references of one StartSpan call.
MaxRefs == 3
\* Number of SetOpenTelemetryTracer calls.
MaxSets == 2
\* Number of baggage keys set on the bridge spans, over all spans.
MaxBaggageItems == 2
\* Number of calls on the bridge the concurrent callers make in all.
MaxBridgeCalls == 3

----------------------------------------------------------------------------
(* Program constants *)

supportedVersion == 0
maxVersion == 254
traceparentHeader == "traceparent"
tracestateHeader == "tracestate"
\* otel.FlagsSampled: bit 0 of the flags byte.
FlagsSampled == 1
\* Widths of the identifiers, in bytes.
TraceIDLen == 16
SpanIDLen == 8

----------------------------------------------------------------------------
(* Bytes, hex text *)

LowerHex == <<"0","1","2","3","4","5","6","7","8","9","a","b","c","d","e","f">>
UpperHex == <<"0","1","2","3","4","5","6","7","8","9","A","B","C","D","E","F">>

LowerHexChars == {LowerHex[i] : i \in 1..16}
HexChars == LowerHexChars \cup {UpperHex[i] : i \in 1..16}
HexVals == [c \in HexChars |->
              (CHOOSE i \in 1..16 : LowerHex[i] = c \/ UpperHex[i] = c) - 1]

IsLowerHexChar(c) == c \in LowerHexChars
IsHexChar(c) == c \in HexChars
HexVal(c) == HexVals[c]

AllLowerHex(s) == \A i \in 1..Len(s) : IsLowerHexChar(s[i])

\* fmt's %.2x of one byte: two lowercase hex digits.
HexByte(b) == <<LowerHex[(b \div 16) + 1], LowerHex[(b % 16) + 1]>>

\* hex.EncodeToString: two lowercase digits per byte.
RECURSIVE EncodeToString(_)
EncodeToString(bs) ==
    IF bs = <<>> THEN <<>> ELSE HexByte(Head(bs)) \o EncodeToString(Tail(bs))

\* hex.DecodeString: an error on odd length or on a non-hex character.
DecodeOK(s) == Len(s) % 2 = 0 /\ \A i \in 1..Len(s) : IsHexChar(s[i])
DecodeString(s) ==
    [i \in 1..(Len(s) \div 2) |-> 16 * HexVal(s[2 * i - 1]) + HexVal(s[2 * i])]

\* a & b on bytes.
RECURSIVE BitAnd(_, _)
BitAnd(a, b) ==
    IF a = 0 \/ b = 0 THEN 0
    ELSE (a % 2) * (b % 2) + 2 * BitAnd(a \div 2, b \div 2)

----------------------------------------------------------------------------
(* Identifiers and span references *)

ZeroBytes(n) == [i \in 1..n |-> 0]
IDIsValid(id) == \E i \in 1..Len(id) : id[i] /= 0

SpanReference(t, s, f) == [TraceID |-> t, SpanID |-> s, TraceFlags |-> f]
EmptySpanReference == SpanReference(ZeroBytes(TraceIDLen), ZeroBytes(SpanIDLen), 0)
IsValid(sr) == IDIsValid(sr.TraceID) /\ IDIsValid(sr.SpanID)

\* otel.TraceIDFromHex / otel.SpanIDFromHex: the decoded identifier, or an error.
IDFromHexOK(s, n) == Len(s) = 2 * n /\ AllLowerHex(s)
IDFromHex(s) == DecodeString(s)

----------------------------------------------------------------------------
(* Context and carrier *)

NoValue == "nil"
Background == [span |-> EmptySpanReference, remote |-> EmptySpanReference,
               tracestate |-> NoValue]

SpanFromContext(c) == c.span
RemoteSpanReferenceFromContext(c) == c.remote
ContextWithSpan(c, sr) == [c EXCEPT !.span = sr]
ContextWithRemoteSpanReference(c, sr) == [c EXCEPT !.remote = sr]
ContextWithTracestate(c, state) == [c EXCEPT !.tracestate = state]

EmptyCarrier == [k \in {} |-> <<>>]
Get(c, key) == IF key \in DOMAIN c THEN c[key] ELSE <<>>
Set(c, key, value) == [k \in DOMAIN c \cup {key} |-> IF k = key THEN value ELSE c[k]]

----------------------------------------------------------------------------
(* propagators/trace_context.go *)

\* traceCtxRegExp.FindStringSubmatch(h): <<>> when h does not match, else the
\* overall match followed by the four named groups.  The trailing group
\* (?:-.*)? does not capture, so a match always has five entries; `.` matches
\* any character but a line feed and `$` only the end of the text.
FindStringSubmatch(h) ==
    IF /\ Len(h) >= 55
       /\ AllLowerHex(SubSeq(h, 1, 2)) /\ h[3] = "-"
       /\ AllLowerHex(SubSeq(h, 4, 35)) /\ h[36] = "-"
       /\ AllLowerHex(SubSeq(h, 37, 52)) /\ h[53] = "-"
       /\ AllLowerHex(SubSeq(h, 54, 55))
       /\ \/ Len(h) = 55
          \/ h[56] = "-" /\ \A i \in 57..Len(h) : h[i] /= "\n"
    THEN <<h, SubSeq(h, 1, 2), SubSeq(h, 4, 35), SubSeq(h, 37, 52), SubSeq(h, 54, 55)>>
    ELSE <<>>

\* matches[i], with Go's index from 0.
Group(matches, i) == matches[i + 1]

\* A bug: the version limit is the largest byte, so no version is rejected.
VersionRejected_Above255(version) == version > 255

\* version > maxVersion
VersionRejected(version) == version > maxVersion

\* version == 0 && len(matches) != 5
VersionZeroHasExtension(version, matches) == version = 0 /\ Len(matches) /= 5

\* A bug: the flags limit of version 00 off by one.
FlagsRejected_Above1(version, opts) == version = 0 /\ opts[1] > 1

\* version == 0 && opts[0] > 2
FlagsRejected(version, opts) == version = 0 /\ opts[1] > 2

\* A bug: the reserved bits are kept.
MaskFlags_Keep(flags) == flags

\* opts[0] & otel.FlagsSampled, sc.TraceFlags & otel.FlagsSampled
MaskFlags(flags) == BitAnd(flags, FlagsSampled)

\* TraceContext.extract: the span reference of the traceparent header, or the
\* empty reference.
extract(c) ==
    LET h == Get(c, traceparentHeader)
        matches == FindStringSubmatch(h)
    IN  IF h = <<>> THEN EmptySpanReference
        ELSE IF Len(matches) = 0 THEN EmptySpanReference
        ELSE IF Len(matches) < 5 THEN EmptySpanReference
        ELSE IF Len(Group(matches, 1)) /= 2 THEN EmptySpanReference
        ELSE IF ~DecodeOK(Group(matches, 1)) THEN EmptySpanReference
        ELSE LET version == DecodeString(Group(matches, 1))[1] IN
        IF VersionRejected(version) THEN EmptySpanReference
        ELSE IF VersionZeroHasExtension(version, matches) THEN EmptySpanReference
        ELSE IF Len(Group(matches, 2)) /= 32 THEN EmptySpanReference
        ELSE IF ~IDFromHexOK(SubSeq(Group(matches, 2), 1, 32), TraceIDLen)
             THEN EmptySpanReference
        ELSE IF Len(Group(matches, 3)) /= 16 THEN EmptySpanReference
        ELSE IF ~IDFromHexOK(Group(matches, 3), SpanIDLen) THEN EmptySpanReference
        ELSE IF Len(Group(matches, 4)) /= 2 THEN EmptySpanReference
        ELSE IF ~DecodeOK(Group(matches, 4)) THEN EmptySpanReference
        ELSE LET opts == DecodeString(Group(matches, 4)) IN
        IF Len(opts) < 1 \/ FlagsRejected(version, opts) THEN EmptySpanReference
        ELSE LET sc == SpanReference(IDFromHex(SubSeq(Group(matches, 2), 1, 32)),
                                     IDFromHex(Group(matches, 3)),
                                     MaskFlags(opts[1]))
        IN  IF ~IsValid(sc) THEN EmptySpanReference ELSE sc

\* A bug: the tracestate is stored only along with a valid traceparent.
ExtractContext_StateWithParent(c, cr) ==
    LET state == Get(cr, tracestateHeader)
        sc == extract(cr)
    IN  IF ~IsValid(sc) THEN c
        ELSE ContextWithRemoteSpanReference(
                 IF state /= <<>> THEN ContextWithTracestate(c, state) ELSE c, sc)

\* A bug: the reference of the header is stored whether it is valid or not.
ExtractContext_Unguarded(c, cr) ==
    LET state == Get(cr, tracestateHeader)
        c1 == IF state /= <<>> THEN ContextWithTracestate(c, state) ELSE c
    IN  ContextWithRemoteSpanReference(c1, extract(cr))

\* A bug: the reference of the header is stored as the current span.
ExtractContext_AsCurrentSpan(c, cr) ==
    LET state == Get(cr, tracestateHeader)
        c1 == IF state /= <<>> THEN ContextWithTracestate(c, state) ELSE c
        sc == extract(cr)
    IN  IF ~IsValid(sc) THEN c1 ELSE ContextWithSpan(c1, sc)

\* TraceContext.Extract: the context returned for context c and carrier cr.
ExtractContext(c, cr) ==
    LET state == Get(cr, tracestateHeader)
        c1 == IF state /= <<>> THEN ContextWithTracestate(c, state) ELSE c
        sc == extract(cr)
    IN  IF ~IsValid(sc) THEN c1 ELSE ContextWithRemoteSpanReference(c1, sc)

\* A bug: Inject writes the flags byte as it is.
FormatTraceparent_Unmasked(sc) ==
    HexByte(supportedVersion) \o <<"-">> \o EncodeToString(sc.TraceID) \o <<"-">>
        \o EncodeToString(sc.SpanID) \o <<"-">> \o HexByte(sc.TraceFlags)

\* The traceparent value Inject formats: "%.2x-%s-%s-%.2x".
FormatTraceparent(sc) ==
    HexByte(supportedVersion) \o <<"-">> \o EncodeToString(sc.TraceID) \o <<"-">>
        \o EncodeToString(sc.SpanID) \o <<"-">> \o HexByte(MaskFlags(sc.TraceFlags))

\* A bug: the traceparent is written for an invalid reference as well.
InjectCarrier_AlwaysTraceparent(c, cr) ==
    LET cr1 == IF c.tracestate /= NoValue
               THEN Set(cr, tracestateHeader, c.tracestate) ELSE cr
    IN  Set(cr1, traceparentHeader, FormatTraceparent(SpanFromContext(c)))

\* TraceContext.Inject: the carrier cr after injecting context c.
InjectCarrier(c, cr) ==
    LET cr1 == IF c.tracestate /= NoValue
               THEN Set(cr, tracestateHeader, c.tracestate) ELSE cr
        sc == SpanFromContext(c)
    IN  IF ~IsValid(sc) THEN cr1
        ELSE Set(cr1, traceparentHeader, FormatTraceparent(sc))

\* TraceContext.Fields
Fields == <<traceparentHeader, tracestateHeader>>

----------------------------------------------------------------------------
(* internal/trace/parent/parent.go *)

Link(sr, attributes) == [SpanReference |-> sr, Attributes |-> attributes]

\* A bug: the link is put in front of the list.
addLinkIfValid_Prepend(links, sr, kind) ==
    IF IDIsValid(sr.TraceID) /\ IDIsValid(sr.SpanID)
    THEN <<[SpanReference |-> sr, Attributes |-> <<<<"ignored-on-demand", kind>>>>]>> \o links
    ELSE links

\* addLinkIfValid: links, with a link to sr tagged ignored-on-demand=kind
\* appended when sr is valid.
addLinkIfValid(links, sr, kind) ==
    IF ~IsValid(sr) THEN links
    ELSE Append(links, Link(sr, <<<<"ignored-on-demand", kind>>>>))

\* A bug: the remote reference is looked at before the local one.
GetSpanReferenceAndLinks_RemoteFirst(c, ignoreContext) ==
    LET lsctx == SpanFromContext(c)
        rsctx == RemoteSpanReferenceFromContext(c)
    IN  IF ignoreContext
        THEN [parent |-> EmptySpanReference, isRemote |-> FALSE,
              links |-> addLinkIfValid(addLinkIfValid(<<>>, lsctx, "current"),
                                       rsctx, "remote")]
        ELSE IF IsValid(rsctx)
        THEN [parent |-> rsctx, isRemote |-> TRUE, links |-> <<>>]
        ELSE IF IsValid(lsctx)
        THEN [parent |-> lsctx, isRemote |-> FALSE, links |-> <<>>]
        ELSE [parent |-> EmptySpanReference, isRemote |-> FALSE, links |-> <<>>]

\* GetSpanReferenceAndLinks: the parent reference, whether it is remote, and
\* the links that stand for the references an explicit new root ignores.
GetSpanReferenceAndLinks(c, ignoreContext) ==
    LET lsctx == SpanFromContext(c)
        rsctx == RemoteSpanReferenceFromContext(c)
    IN  IF ignoreContext
        THEN [parent |-> EmptySpanReference, isRemote |-> FALSE,
              links |-> addLinkIfValid(addLinkIfValid(<<>>, lsctx, "current"),
                                       rsctx, "remote")]
        ELSE IF IsValid(lsctx)
        THEN [parent |-> lsctx, isRemote |-> FALSE, links |-> <<>>]
        ELSE IF IsValid(rsctx)
        THEN [parent |-> rsctx, isRemote |-> TRUE, links |-> <<>>]
        ELSE [parent |-> EmptySpanReference, isRemote |-> FALSE, links |-> <<>>]

----------------------------------------------------------------------------
(* Inputs of the propagator specification *)

\* The identifiers of the example header of the W3C format, and a second pair.
TraceIDA == <<75, 249, 47, 53, 119, 179, 77, 166, 163, 206, 146, 157, 14, 14, 71, 54>>
SpanIDA == <<0, 240, 103, 170, 11, 169, 2, 183>>
TraceIDB == [i \in 1..TraceIDLen |-> IF i = TraceIDLen THEN 1 ELSE 0]
SpanIDB == [i \in 1..SpanIDLen |-> IF i = 1 THEN 255 ELSE 0]

Bytes == 0..255

\* References a context may hold as its current span: invalid ones (a no-op
\* span, a half-set reference) and valid ones with reserved flag bits set.
LocalRefs ==
    {EmptySpanReference,
     SpanReference(TraceIDA, ZeroBytes(SpanIDLen), 1),
     SpanReference(ZeroBytes(TraceIDLen), SpanIDA, 1)}
    \cup {SpanReference(TraceIDA, SpanIDA, f) : f \in {0, 1, 2}}
    \cup {SpanReference(TraceIDB, SpanIDB, 255)}

\* References set directly as the remote reference of a context.
RemoteRefs ==
    {EmptySpanReference, SpanReference(TraceIDB, SpanIDA, 1),
     SpanReference(ZeroBytes(TraceIDLen), SpanIDB, 0)}

Dash == <<"-">>
MkHeader(v, t, s, f, tail) == v \o Dash \o t \o Dash \o s \o Dash \o f \o tail

TextA == EncodeToString(TraceIDA)
TextS == EncodeToString(SpanIDA)

\* Headers of the right shape: every flags byte under versions 00 and 01,
\* every version byte, and the boundary versions with zero identifiers and
\* trailing segments.
ShapedHeaders ==
    {MkHeader(HexByte(v), TextA, TextS, HexByte(f), <<>>) : v \in {0, 1}, f \in Bytes}
    \cup {MkHeader(HexByte(v), TextA, TextS, HexByte(1), <<>>) : v \in Bytes}
    \cup {MkHeader(HexByte(v), EncodeToString(t), EncodeToString(s), HexByte(f), tail) :
            v \in {0, 1, 254, 255},
            t \in {TraceIDA, ZeroBytes(TraceIDLen)},
            s \in {SpanIDA, ZeroBytes(SpanIDLen)},
            f \in {1, 3},
            tail \in {<<>>, <<"-">>, <<"-", "x", "y">>}}

\* Headers that break the grammar in one place.
MalformedHeaders ==
    {MkHeader(v, TextA, TextS, HexByte(1), <<>>) :
        v \in {<<"0">>, <<"0", "g">>, <<"0", "A">>, <<"0", "0", "0">>, <<" ", "0", "0">>}}
    \cup {MkHeader(HexByte(0), t, TextS, HexByte(1), <<>>) :
        t \in {SubSeq(TextA, 1, 31), TextA \o <<"0">>, [TextA EXCEPT ![1] = "G"],
               [TextA EXCEPT ![2] = "B"]}}
    \cup {MkHeader(HexByte(0), TextA, s, HexByte(1), <<>>) :
        s \in {SubSeq(TextS, 1, 15), TextS \o <<"0">>, [TextS EXCEPT ![16] = "z"]}}
    \cup {MkHeader(HexByte(v), TextA, TextS, f, tail) :
        v \in {0, 1},
        f \in {<<>>, <<"0">>, <<"0", "X">>, <<"0", "1", "0">>},
        tail \in {<<>>, <<"-", "x">>}}
    \cup {MkHeader(HexByte(v), TextA, TextS, HexByte(1), tail) :
        v \in {0, 1}, tail \in {<<"x", "y">>, <<"-", "\n">>, <<"-", "a", "\n", "b">>}}
    \cup {HexByte(0), HexByte(0) \o Dash \o TextA, HexByte(0) \o Dash \o TextA \o Dash \o TextS}

Headers == ShapedHeaders \cup MalformedHeaders

\* tracestate values: opaque text.
Tracestates == {<<"r", "o", "j", "o", "=", "1">>, <<"c", "o", "n", "g", "o", "=", "t", "6">>}

\* Carriers of incoming requests: a traceparent alone, or a tracestate with
\* or without a traceparent.
RequestCarriers ==
    {Set(EmptyCarrier, traceparentHeader, h) : h \in Headers}
    \cup {Set(EmptyCarrier, tracestateHeader, s) : s \in Tracestates}
    \cup {Set(Set(EmptyCarrier, traceparentHeader, h), tracestateHeader, s) :
            h \in {MkHeader(HexByte(0), TextA, TextS, HexByte(f), tail) :
                       f \in {1, 3}, tail \in {<<>>, <<"-", "x", "y">>}}
                  \cup {HexByte(0)},
            s \in Tracestates}

\* A sample of the request carriers: accepted headers, a version 00 header with
\* a trailing segment, reserved flag bits, zero identifiers, broken headers, a
\* lone tracestate.
SampleCarriers ==
    {Set(EmptyCarrier, traceparentHeader, h) :
        h \in {MkHeader(HexByte(v), TextA, TextS, HexByte(f), tail) :
                   v \in {0, 1}, f \in {1, 2, 3}, tail \in {<<>>, <<"-", "x", "y">>}}
              \cup {MkHeader(HexByte(255), TextA, TextS, HexByte(1), <<>>),
                    MkHeader(HexByte(0), EncodeToString(ZeroBytes(TraceIDLen)), TextS,
                             HexByte(1), <<>>),
                    MkHeader(HexByte(1), TextA, EncodeToString(ZeroBytes(SpanIDLen)),
                             HexByte(1), <<"-", "x", "y">>),
                    MkHeader(HexByte(0), TextA, TextS, <<"0">>, <<>>),
                    HexByte(0)}}
    \cup {Set(EmptyCarrier, tracestateHeader, s) : s \in Tracestates}
    \cup {Set(Set(EmptyCarrier, traceparentHeader, h), tracestateHeader, s) :
            h \in {MkHeader(HexByte(0), TextA, TextS, HexByte(1), <<>>), HexByte(0)},
            s \in Tracestates}

\* Carriers of outgoing requests, before Inject: empty, or holding headers
\* set earlier (a stale traceparent, a tracestate, an unrelated header).
OutgoingCarriers ==
    {EmptyCarrier,
     Set(EmptyCarrier, traceparentHeader,
         MkHeader(HexByte(0), EncodeToString(TraceIDB), EncodeToString(SpanIDB),
                  HexByte(0), <<>>)),
     Set(Set(EmptyCarrier, tracestateHeader, <<"o", "l", "d">>),
         "baggage", <<"k", "=", "v">>)}

----------------------------------------------------------------------------
(* bridge/opentracing: span references, baggage, references of a new span,   *)
(* Inject.  Baggage keys are sequences of characters; a bridgeSpanReference  *)
(* is held by pointer, so it lives in a heap and is named by its address.    *)

LowerLetters == <<"a","b","c","d","e","f","g","h","i","j","k","l","m",
                  "n","o","p","q","r","s","t","u","v","w","x","y","z">>
UpperLetters == <<"A","B","C","D","E","F","G","H","I","J","K","L","M",
                  "N","O","P","Q","R","S","T","U","V","W","X","Y","Z">>
LetterIndex == 1..Len(LowerLetters)

\* The bytes of a header field name (textproto's validHeaderFieldByte), but
\* for the backquote, which no string of the model holds.
TokenChars ==
    {LowerLetters[i] : i \in LetterIndex} \cup {UpperLetters[i] : i \in LetterIndex}
    \cup {"0","1","2","3","4","5","6","7","8","9"}
    \cup {"!","#","$","%","&","'","*","+","-",".","^","_","|","~"}

ToUpperChar(c) ==
    IF \E i \in LetterIndex : LowerLetters[i] = c
    THEN UpperLetters[CHOOSE i \in LetterIndex : LowerLetters[i] = c] ELSE c
ToLowerChar(c) ==
    IF \E i \in LetterIndex : UpperLetters[i] = c
    THEN LowerLetters[CHOOSE i \in LetterIndex : UpperLetters[i] = c] ELSE c

\* http.CanonicalHeaderKey: the first letter and every letter after a dash in
\* upper case, the others in lower case; a key with a byte that no field name
\* has is returned as it is.
CanonicalHeaderKey(s) ==
    IF \E i \in 1..Len(s) : s[i] \notin TokenChars THEN s
    ELSE [i \in 1..Len(s) |->
            IF i = 1 \/ s[i - 1] = "-" THEN ToUpperChar(s[i]) ELSE ToLowerChar(s[i])]

\* baggage.NewEmptyMap(), and Map.Apply of an update with a single pair: a
\* new map with the key set; a pair without a key is not added.
NewEmptyMap == [k \in {} |-> ""]
MapApply(m, key, value) ==
    IF key = <<>> THEN m
    ELSE [k \in DOMAIN m \cup {key} |-> IF k = key THEN value ELSE m[k]]

\* A nil *bridgeSpanReference; addresses of the heap start at 1.
NilRef == 0

\* An ot.SpanContext: a *bridgeSpanReference at an address, or the span
\* context of another tracer.
BridgeContext(a) == [bridge |-> TRUE, addr |-> a]
ForeignContext == [bridge |-> FALSE, addr |-> NilRef]

\* bridgeSpanReference.setBaggageItem, on the reference at address a.
setBaggageItem(heap, a, restrictedKey, value) ==
    [heap EXCEPT ![a].baggageItems =
        MapApply(@, CanonicalHeaderKey(restrictedKey), value)]

\* parentOtSpanContext.ForeachBaggageItem(... bRef.setBaggageItem(key, value)):
\* the items are visited in the order the map yields them.
RECURSIVE ForeachBaggageItem(_, _, _, _)
ForeachBaggageItem(heap, a, items, keys) ==
    IF keys = {} THEN heap
    ELSE LET key == CHOOSE k \in keys : TRUE
         IN  ForeachBaggageItem(setBaggageItem(heap, a, key, items[key]), a,
                                items, keys \ {key})

\* A bug: the new reference does not take the baggage of its parent.
newBridgeSpanReference_NoInheritance(heap, otelSpanReference, parentOtSpanContext) ==
    [heap |-> Append(heap, [baggageItems |-> NewEmptyMap,
                            otelSpanReference |-> otelSpanReference]),
     bRef |-> Len(heap) + 1]

\* newBridgeSpanReference: the heap with the new reference, and its address.
newBridgeSpanReference(heap, otelSpanReference, parentOtSpanContext) ==
    LET bRef == Len(heap) + 1
        fresh == Append(heap, [baggageItems |-> NewEmptyMap,
                               otelSpanReference |-> otelSpanReference])
    IN  [heap |-> IF parentOtSpanContext /= NilRef
                  THEN ForeachBaggageItem(fresh, bRef,
                                          heap[parentOtSpanContext].baggageItems,
                                          DOMAIN heap[parentOtSpanContext].baggageItems)
                  ELSE fresh,
         bRef |-> bRef]

\* newBridgeSpan
newBridgeSpan(otelSpan, bridgeSC) ==
    [otelSpan |-> otelSpan, ctx |-> bridgeSC, skipDeferHook |-> FALSE,
     extraBaggageItems |-> NewEmptyMap]

\* ot.ChildOfRef, ot.FollowsFromRef, and a reference type that is neither.
ChildOfRef == 0
FollowsFromRef == 1
UnknownRef == 2

\* otSpanReferenceTypeToString
otSpanReferenceTypeToString(refType) ==
    CASE refType = ChildOfRef -> "extra-child-of"
      [] refType = FollowsFromRef -> "follows-from-ref"
      [] OTHER -> "unknown-" \o ToString(refType)

\* otSpanReferenceTypeToOTelLinkAttributes
otSpanReferenceTypeToOTelLinkAttributes(refType) ==
    <<<<"ot-span-reference-type", otSpanReferenceTypeToString(refType)>>>>

\* otSpanReferenceToOTelLink
otSpanReferenceToOTelLink(heap, bridgeSC, refType) ==
    Link(heap[bridgeSC].otelSpanReference, otSpanReferenceTypeToOTelLinkAttributes(refType))

\* A bug: the first bridge reference is the parent, whatever its type.
RECURSIVE ParentAndLinksLoop_AnyType(_, _, _, _)
ParentAndLinksLoop_AnyType(heap, references, parent, links) ==
    IF references = <<>> THEN [parent |-> parent, links |-> links]
    ELSE LET reference == Head(references)
             bridgeSC == reference.ReferencedContext.addr
         IN  IF ~reference.ReferencedContext.bridge
             THEN ParentAndLinksLoop_AnyType(heap, Tail(references), parent, links)
             ELSE IF parent /= NilRef
             THEN ParentAndLinksLoop_AnyType(heap, Tail(references), parent,
                      Append(links, otSpanReferenceToOTelLink(heap, bridgeSC, reference.Type)))
             ELSE ParentAndLinksLoop_AnyType(heap, Tail(references), bridgeSC, links)

otSpanReferencesToParentAndLinks_AnyType(heap, references) ==
    ParentAndLinksLoop_AnyType(heap, references, NilRef, <<>>)

\* The loop of otSpanReferencesToParentAndLinks over the references left.
RECURSIVE ParentAndLinksLoop(_, _, _, _)
ParentAndLinksLoop(heap, references, parent, links) ==
    IF references = <<>> THEN [parent |-> parent, links |-> links]
    ELSE LET reference == Head(references)
             bridgeSC == reference.ReferencedContext.addr
         IN  IF ~reference.ReferencedContext.bridge
             THEN ParentAndLinksLoop(heap, Tail(references), parent, links)
             ELSE IF parent /= NilRef
             THEN ParentAndLinksLoop(heap, Tail(references), parent,
                      Append(links, otSpanReferenceToOTelLink(heap, bridgeSC, reference.Type)))
             ELSE IF reference.Type = ChildOfRef
             THEN ParentAndLinksLoop(heap, Tail(references), bridgeSC, links)
             ELSE ParentAndLinksLoop(heap, Tail(references), parent,
                      Append(links, otSpanReferenceToOTelLink(heap, bridgeSC, reference.Type)))

\* otSpanReferencesToParentAndLinks: the address of the parent reference, or
\* NilRef, and the links.
otSpanReferencesToParentAndLinks(heap, references) ==
    ParentAndLinksLoop(heap, references, NilRef, <<>>)

\* The errors of BridgeTracer.Inject, and no error.
ErrInvalidSpanContext == "opentracing: SpanContext type incompatible with tracer"
ErrUnsupportedFormat == "opentracing: Unknown or unsupported Inject/Extract format"
ErrInvalidCarrier == "opentracing: Invalid Inject/Extract carrier"
NoError == "nil"

\* The formats and the carriers a caller passes to Inject: the built-in
\* formats and one of its own; a carrier of the type the format names, whose
\* header map is h.
HTTPHeaders == "HTTPHeaders"
Formats == {"TextMap", HTTPHeaders, "custom"}
HTTPHeadersCarrier(h) == [type |-> "HTTPHeadersCarrier", header |-> h]
TextMapCarrier(h) == [type |-> "TextMapCarrier", header |-> h]

\* A bug: the format is looked at before the span context.
BridgeTracerInject_FormatFirst(heap, sm, format, carrier) ==
    IF format /= HTTPHeaders
    THEN [err |-> ErrUnsupportedFormat, header |-> carrier.header, propagatorCalls |-> <<>>]
    ELSE IF ~sm.bridge \/ ~IsValid(heap[sm.addr].otelSpanReference)
    THEN [err |-> ErrInvalidSpanContext, header |-> carrier.header, propagatorCalls |-> <<>>]
    ELSE IF carrier.type /= "HTTPHeadersCarrier"
    THEN [err |-> ErrInvalidCarrier, header |-> carrier.header, propagatorCalls |-> <<>>]
    ELSE LET c == ContextWithSpan(Background, heap[sm.addr].otelSpanReference)
         IN  [err |-> NoError, header |-> InjectCarrier(c, carrier.header),
              propagatorCalls |-> <<[ctx |-> c, carrier |-> carrier.header]>>]

\* BridgeTracer.Inject: the error returned, the header map of the carrier as
\* the call leaves it, and the calls of the propagator's Inject it made.  The
\* propagator getPropagator returns is the W3C propagator above, which does
\* not read the baggage map put into the context.
BridgeTracerInject(heap, sm, format, carrier) ==
    IF ~sm.bridge
    THEN [err |-> ErrInvalidSpanContext, header |-> carrier.header, propagatorCalls |-> <<>>]
    ELSE IF ~IsValid(heap[sm.addr].otelSpanReference)
    THEN [err |-> ErrInvalidSpanContext, header |-> carrier.header, propagatorCalls |-> <<>>]
    ELSE IF format /= HTTPHeaders
    THEN [err |-> ErrUnsupportedFormat, header |-> carrier.header, propagatorCalls |-> <<>>]
    ELSE IF carrier.type /= "HTTPHeadersCarrier"
    THEN [err |-> ErrInvalidCarrier, header |-> carrier.header, propagatorCalls |-> <<>>]
    ELSE LET c == ContextWithSpan(Background, heap[sm.addr].otelSpanReference)
         IN  [err |-> NoError, header |-> InjectCarrier(c, carrier.header),
              propagatorCalls |-> <<[ctx |-> c, carrier |-> carrier.header]>>]

\* The tracers behind the bridge: the no-op tracer it starts with, and the
\* tracers a caller sets, one that leaves the context setup to the bridge
\* (migration.DeferredContextSetupTracerExtension) and one that does not.
NoopTracer == "noop.Tracer"
OTelTracers == {"tracer", "tracer with deferred setup"}
DeferredContextSetupTracerExtension(tracer) == tracer = "tracer with deferred setup"

\* Start of the tracer returns another context than the one it was given: a
\* tracer that knows nothing of the deferred setup puts its span into the
\* context; the no-op tracer returns the context as it is.
StartSetsUpContext(tracer) == tracer = "tracer"

\* The warnings of the bridge.
TracerNotSetWarning ==
    "The OpenTelemetry tracer is not set, default no-op tracer is used! Call SetOpenTelemetryTracer to set it up.\n"
DeferredSetupWarning ==
    "SDK should have deferred the context setup, see the documentation of go.opentelemetry.io/otel/bridge/opentracing/migration\n"
ForeignSpanWarning ==
    "Encountered a foreign OpenTracing span, will not run a possible deferred context setup hook\n"

\* A span of another OpenTracing tracer; bridge spans are named by their
\* place in bspans.
ForeignSpan == 0

\* NewBridgeTracer()
NewBridgeTracer ==
    [setTracer |-> [isSet |-> FALSE, otelTracer |-> NoopTracer, warnOnce |-> FALSE],
     warnOnce |-> FALSE]

\* No bridge call in progress.
NoCall == [op |-> "none"]

----------------------------------------------------------------------------
(* State *)

NoOwner == 0
Goroutines == 1..NumGoroutines

Op(name, c, cr, result) == [op |-> name, ctx |-> c, carrier |-> cr, result |-> result]

Init ==
    /\ ctx = Background
    /\ last = Op("Init", Background, EmptyCarrier, <<>>)
    /\ counter = 0
    /\ started = <<>>
    /\ mutex = NoOwner
    /\ pc = [g \in Goroutines |-> "idle"]
    /\ local = [g \in Goroutines |-> [spans |-> <<>>, seen |-> <<>>]]
    /\ bridge = NewBridgeTracer
    /\ warnings = <<>>
    /\ refs = <<>>
    /\ bspans = <<>>
    /\ bcalls = [g \in Goroutines |->
                    [pc |-> "idle", call |-> NoCall, buffer |-> <<>>, sets |-> 0, calls |-> 0]]

tracerVars == <<counter, started, mutex, pc, local>>
bridgeVars == <<bridge, warnings, refs, bspans, bcalls>>

----------------------------------------------------------------------------------------------------------------------------------------------------------------------------------------------------------------
(* The propagator: contexts are derived, requests come in and go out.  The   *)
(* carrier is an argument of Extract and Inject; last.result holds the       *)
(* carrier as Inject left it.                                                *)

\* The carrier the last call injected into, as a peer receives it.
Injected == IF last.op = "Inject" THEN {last.result} ELSE {}

\* ctx = TraceContext{}.Extract(ctx, cr).  A fresh context extracts from every
\* request carrier; a context derived further extracts from the sample
\* carriers; both extract from the carrier just injected.
Extract ==
    /\ \E cr \in (IF ctx = Background THEN RequestCarriers ELSE SampleCarriers)
                 \cup Injected :
        /\ ctx' = ExtractContext(ctx, cr)
        /\ last' = Op("Extract", ctx, cr, <<>>)
    /\ UNCHANGED <<tracerVars, bridgeVars>>

\* TraceContext{}.Inject(ctx, cr), for the carrier of an outgoing request.
Inject ==
    /\ \E cr \in OutgoingCarriers :
        last' = Op("Inject", ctx, cr, InjectCarrier(ctx, cr))
    /\ UNCHANGED <<ctx, tracerVars, bridgeVars>>

\* ctx = context.Background()
NewContext ==
    /\ ctx /= Background
    /\ ctx' = Background
    /\ last' = Op("NewContext", Background, EmptyCarrier, <<>>)
    /\ UNCHANGED <<tracerVars, bridgeVars>>

\* ctx = otel.ContextWithSpan(ctx, span)
WithSpan ==
    /\ \E sr \in LocalRefs :
        /\ ctx' = ContextWithSpan(ctx, sr)
        /\ last' = Op("WithSpan", Background, EmptyCarrier, <<>>)
    /\ UNCHANGED <<tracerVars, bridgeVars>>

\* ctx = otel.ContextWithRemoteSpanReference(ctx, sr)
WithRemoteSpanReference ==
    /\ \E sr \in RemoteRefs :
        /\ ctx' = ContextWithRemoteSpanReference(ctx, sr)
        /\ last' = Op("WithRemoteSpanReference", Background, EmptyCarrier, <<>>)
    /\ UNCHANGED <<tracerVars, bridgeVars>>

\* parent.GetSpanReferenceAndLinks(ctx, ignoreContext)
Resolve ==
    /\ \E ignoreContext \in BOOLEAN :
        last' = Op("Resolve", ctx, EmptyCarrier,
                   [ignoreContext |-> ignoreContext,
                    got |-> GetSpanReferenceAndLinks(ctx, ignoreContext)])
    /\ UNCHANGED <<ctx, tracerVars, bridgeVars>>

Next ==
    \/ Extract
    \/ Inject
    \/ NewContext
    \/ WithSpan
    \/ WithRemoteSpanReference
    \/ Resolve

Spec == Init /\ [][Next]_vars

----------------------------------------------------------------------------------------------------------------------------------------------
(* The tracer: span start (the contract of Tracer.Start the tracer tests     *)
(* check) on top of parent resolution, an identifier generator that never    *)
(* hands out a number twice, and a span recorder behind a lock.              *)

\* The identifier of n bytes that stands for the generator's number v.
IDBytes(n, v) ==
    [i \in 1..n |-> IF i = n THEN v % 256 ELSE IF i = n - 1 THEN (v \div 256) % 256 ELSE 0]

\* How many identifiers a start takes from the generator: a span identifier,
\* and a trace identifier when the span is a root.
IDsTaken(c, newRoot) ==
    IF IsValid(GetSpanReferenceAndLinks(c, newRoot).parent) THEN 1 ELSE 2

\* The span Tracer.Start creates in context c, with the generator at n.
StartSpan(c, newRoot, links, n) ==
    LET res == GetSpanReferenceAndLinks(c, newRoot)
        sr == IF IsValid(res.parent)
              THEN SpanReference(res.parent.TraceID, IDBytes(SpanIDLen, n + 1),
                                 res.parent.TraceFlags)
              ELSE SpanReference(IDBytes(TraceIDLen, n + 1), IDBytes(SpanIDLen, n + 2), 0)
    IN  [SpanReference |-> sr,
         ParentSpanID |-> res.parent.SpanID,
         Links |-> res.links \o links]

\* A bug: the recorder puts the span in front of its list.
OnStart_Prepend(spans, span) == <<span>> \o spans

\* StandardSpanRecorder.OnStart, under the recorder's lock.
OnStart(spans, span) == Append(spans, span)

\* Links a caller passes with WithLinks.
LinkA == Link(SpanReference(TraceIDA, SpanIDA, 1), <<<<"a", "1">>>>)
LinkB == Link(SpanReference(TraceIDB, SpanIDB, 0), <<<<"b", "2">>>>)
LinkLists == {<<>>, <<LinkA, LinkB>>, <<LinkB, LinkA>>}

\* ctx, span = tracer.Start(ctx, name, options): the caller goes on with the
\* returned context or with the one it had.
Start ==
    /\ Len(started) < MaxSpans
    /\ \E newRoot \in BOOLEAN, links \in LinkLists, keep \in BOOLEAN :
        LET span == StartSpan(ctx, newRoot, links, counter) IN
        /\ counter' = counter + IDsTaken(ctx, newRoot)
        /\ started' = OnStart(started, span)
        /\ ctx' = IF keep THEN ContextWithSpan(ctx, span.SpanReference) ELSE ctx
        /\ last' = Op("Start", ctx, EmptyCarrier,
                      [newRoot |-> newRoot, links |-> links, span |-> span])
    /\ UNCHANGED <<mutex, pc, local, bridgeVars>>

\* ctx = otel.ContextWithRemoteSpanReference(ctx, span.SpanReference()), for
\* a span started earlier.
WithRemoteSpan ==
    /\ \E i \in 1..Len(started) :
        /\ ctx.remote /= started[i].SpanReference
        /\ ctx' = ContextWithRemoteSpanReference(ctx, started[i].SpanReference)
    /\ last' = Op("WithRemoteSpan", Background, EmptyCarrier, <<>>)
    /\ UNCHANGED <<tracerVars, bridgeVars>>

\* ctx = context.Background(), the tracer as it is.
FreshContext ==
    /\ ctx /= Background
    /\ ctx' = Background
    /\ last' = Op("FreshContext", Background, EmptyCarrier, <<>>)
    /\ UNCHANGED <<tracerVars, bridgeVars>>

NextTracer ==
    \/ Start
    \/ WithRemoteSpan
    \/ FreshContext

SpecTracer == Init /\ [][NextTracer]_vars

----------------------------------------------------------------------------
(* Concurrent span starts: the goroutines call Start on context.Background,  *)
(* MaxCalls times in all; the steps of a call interleave with those of the   *)
(* others.                                                                   *)

\* The number of Start calls the goroutines of G have issued.
RECURSIVE Issued(_)
Issued(G) ==
    IF G = {} THEN 0
    ELSE LET g == CHOOSE x \in G : TRUE
         IN  Len(local[g].spans) + Issued(G \ {g})

\* A bug: the recorder's lock is not taken.
MutexFree_Always(m) == TRUE

MutexFree(m) == m = NoOwner

\* The span of goroutine g's call in progress.
CurrentSpan(g) == local[g].spans[Len(local[g].spans)]

\* Start is called: the parent is resolved and the identifiers are taken
\* from the generator, which serves one caller at a time.
CallStart(g) ==
    /\ pc[g] = "idle"
    /\ Issued(Goroutines) < MaxCalls
    /\ counter' = counter + IDsTaken(Background, FALSE)
    /\ local' = [local EXCEPT ![g].spans =
                    Append(@, StartSpan(Background, FALSE, <<>>, counter))]
    /\ pc' = [pc EXCEPT ![g] = "lock"]
    /\ UNCHANGED <<ctx, last, started, mutex, bridgeVars>>

\* OnStart: startedMu.Lock()
Lock(g) ==
    /\ pc[g] = "lock"
    /\ MutexFree(mutex)
    /\ mutex' = g
    /\ pc' = [pc EXCEPT ![g] = "read"]
    /\ UNCHANGED <<ctx, last, counter, started, local, bridgeVars>>

\* OnStart: append reads the list ...
ReadStarted(g) ==
    /\ pc[g] = "read"
    /\ local' = [local EXCEPT ![g].seen = started]
    /\ pc' = [pc EXCEPT ![g] = "write"]
    /\ UNCHANGED <<ctx, last, counter, started, mutex, bridgeVars>>

\* ... and stores the list with the span added.
WriteStarted(g) ==
    /\ pc[g] = "write"
    /\ started' = OnStart(local[g].seen, CurrentSpan(g))
    /\ local' = [local EXCEPT ![g].seen = <<>>]
    /\ pc' = [pc EXCEPT ![g] = "unlock"]
    /\ UNCHANGED <<ctx, last, counter, mutex, bridgeVars>>

\* OnStart: startedMu.Unlock(), and Start returns the span.
UnlockReturn(g) ==
    /\ pc[g] = "unlock"
    /\ mutex' = NoOwner
    /\ pc' = [pc EXCEPT ![g] = "idle"]
    /\ UNCHANGED <<ctx, last, counter, started, local, bridgeVars>>

NextConcurrent ==
    \E g \in Goroutines :
        \/ CallStart(g)
        \/ Lock(g)
        \/ ReadStarted(g)
        \/ WriteStarted(g)
        \/ UnlockReturn(g)

SpecConcurrent == Init /\ [][NextConcurrent]_vars

----------------------------------------------------------------------------
(* The OpenTracing bridge: calls on one BridgeTracer.  `isSet` and           *)
(* `otelTracer` of setTracer are read and written without synchronisation,   *)
(* so a store of one goroutine reaches the others some time after it was     *)
(* made (a goroutine sees its own stores at once); warnOnce is a sync.Once.  *)
(* A caller on its own makes a call in one step; among concurrent callers a  *)
(* call that looks up the tracer takes a step for each access.               *)

\* The goroutine of a caller that makes its calls one after the other.
Caller == 1

BaggageKeys == {<<"k">>, <<"K">>, <<"x", "-", "y">>}
BaggageValues == {"1", "2"}

\* The span contexts a caller holds: span.Context() of the bridge's spans, and
\* the span context of another tracer.
SpanContexts == {ForeignContext} \cup {BridgeContext(bspans[i].ctx) : i \in 1..Len(bspans)}

\* The reference lists of at most n references a caller passes to StartSpan,
\* and the lists of one reference of a type that is neither ChildOf nor
\* FollowsFrom.
ReferenceLists(n) ==
    UNION {[1..k -> [Type : {ChildOfRef, FollowsFromRef},
                     ReferencedContext : SpanContexts]] : k \in 0..n}
    \cup {<<[Type |-> UnknownRef, ReferencedContext |-> c]>> :
            c \in IF n = 0 THEN {} ELSE SpanContexts}

\* The carriers a caller passes to Inject.
BridgeCarriers ==
    {HTTPHeadersCarrier(h) : h \in OutgoingCarriers}
    \cup {TextMapCarrier(h) : h \in OutgoingCarriers \ {EmptyCarrier}}

\* The value goroutine g reads from a field of setTracer: its own latest
\* store if one is pending, else the value in memory.
Load(g, field) ==
    LET mine == SelectSeq(bcalls[g].buffer, LAMBDA w : w.field = field)
    IN  IF mine /= <<>> THEN mine[Len(mine)].value ELSE bridge.setTracer[field]

\* The number of SetOpenTelemetryTracer calls the goroutines of G have made,
\* and the number of calls they have made among concurrent callers.
RECURSIVE SetsIssued(_)
SetsIssued(G) ==
    IF G = {} THEN 0
    ELSE LET g == CHOOSE x \in G : TRUE
         IN  bcalls[g].sets + SetsIssued(G \ {g})

RECURSIVE CallsIssued(_)
CallsIssued(G) ==
    IF G = {} THEN 0
    ELSE LET g == CHOOSE x \in G : TRUE
         IN  bcalls[g].calls + CallsIssued(G \ {g})

\* A SetOpenTelemetryTracer call has returned.
SetReturned == \E g \in Goroutines : bcalls[g].sets > 0

\* The number of baggage keys set on the first i spans.
RECURSIVE BaggageItemsSet(_)
BaggageItemsSet(i) ==
    IF i = 0 THEN 0
    ELSE Cardinality(DOMAIN bspans[i].extraBaggageItems) + BaggageItemsSet(i - 1)

\* bridgeSetTracer.tracer, `if !s.isSet { s.warnOnce.Do(...) }`: the bridge
\* and the warnings after a lookup that read isSet; sync.Once runs the
\* function of its first caller only.  A warning carries whether a
\* SetOpenTelemetryTracer call had returned when the lookup was made.
tracerBridge(b, isSet) ==
    IF isSet \/ b.setTracer.warnOnce THEN b ELSE [b EXCEPT !.setTracer.warnOnce = TRUE]
tracerWarnings(b, w, isSet, late) ==
    IF isSet \/ b.setTracer.warnOnce THEN w
    ELSE Append(w, [msg |-> TracerNotSetWarning, late |-> late])

\* StartSpan from the call of Start on: the span is started on otelTracer in
\* a context that holds the parent as the remote reference, the bridge warns
\* once when the tracer has set up the context itself, and the bridge span
\* with its new span reference is returned.  b and w are the bridge and the
\* warnings as the tracer lookup left them.
StartSpanOn(b, w, otelTracer, references, parent, links) ==
    LET checkCtx == IF parent /= NilRef
                    THEN ContextWithRemoteSpanReference(
                             Background, refs[parent].otelSpanReference)
                    ELSE Background
        otelSpan == StartSpan(checkCtx, FALSE, links, counter)
        reference == IF otelTracer = NoopTracer THEN EmptySpanReference
                     ELSE otelSpan.SpanReference
        sctx == newBridgeSpanReference(refs, reference, parent)
        deferred == ~StartSetsUpContext(otelTracer)
    IN  /\ counter' = IF otelTracer = NoopTracer THEN counter
                      ELSE counter + IDsTaken(checkCtx, FALSE)
        /\ started' = IF otelTracer = NoopTracer THEN started
                      ELSE OnStart(started, otelSpan)
        /\ bridge' = IF deferred THEN b ELSE [b EXCEPT !.warnOnce = TRUE]
        /\ warnings' = IF deferred \/ b.warnOnce THEN w
                       ELSE Append(w, [msg |-> DeferredSetupWarning, late |-> FALSE])
        /\ refs' = sctx.heap
        /\ bspans' = Append(bspans, newBridgeSpan(reference, sctx.bRef))
        /\ last' = Op("BridgeStartSpan", checkCtx, EmptyCarrier,
                      [references |-> references, parent |-> parent,
                       links |-> links, span |-> Len(bspans) + 1])

\* span = t.StartSpan(operationName, opts...), by a caller on its own: the
\* references are split into the parent and the links, the tracer is looked
\* up and the span is started.
BridgeStartSpan(g, references) ==
    /\ bcalls[g].pc = "idle"
    /\ Len(bspans) < MaxBridgeSpans
    /\ LET pl == otSpanReferencesToParentAndLinks(refs, references)
           isSet == Load(g, "isSet")
       IN  StartSpanOn(tracerBridge(bridge, isSet),
                       tracerWarnings(bridge, warnings, isSet, SetReturned),
                       Load(g, "otelTracer"), references, pl.parent, pl.links)
    /\ UNCHANGED <<ctx, mutex, pc, local, bcalls>>

\* t.StartSpan(operationName, opts...) is called among concurrent callers:
\* the references are split, and the tracer is looked up next.
StartSpanCall(g, references) ==
    /\ bcalls[g].pc = "idle"
    /\ CallsIssued(Goroutines) < MaxBridgeCalls
    /\ LET pl == otSpanReferencesToParentAndLinks(refs, references)
       IN  bcalls' = [bcalls EXCEPT
                ![g].pc = "isSet",
                ![g].calls = @ + 1,
                ![g].call = [op |-> "StartSpan", references |-> references,
                             parent |-> pl.parent, links |-> pl.links, late |-> FALSE]]
    /\ UNCHANGED <<ctx, last, tracerVars, bridge, warnings, refs, bspans>>

\* t.ContextWithSpanHook(ctx, span) is called on context.Background(): a
\* foreign span is warned about, a span that skips the hook returns the
\* context, any other looks up the tracer next.
ContextWithSpanHook(g, span) ==
    /\ bcalls[g].pc = "idle"
    /\ CallsIssued(Goroutines) < MaxBridgeCalls
    /\ IF span = ForeignSpan
       THEN /\ warnings' = Append(warnings, [msg |-> ForeignSpanWarning, late |-> FALSE])
            /\ last' = Op("ContextWithSpanHook", Background, EmptyCarrier,
                          [span |-> span, ctx |-> Background])
            /\ bcalls' = [bcalls EXCEPT ![g].calls = @ + 1]
       ELSE IF bspans[span].skipDeferHook
       THEN /\ last' = Op("ContextWithSpanHook", Background, EmptyCarrier,
                          [span |-> span, ctx |-> Background])
            /\ bcalls' = [bcalls EXCEPT ![g].calls = @ + 1]
            /\ UNCHANGED warnings
       ELSE /\ bcalls' = [bcalls EXCEPT
                 ![g].pc = "isSet",
                 ![g].calls = @ + 1,
                 ![g].call = [op |-> "ContextWithSpanHook", span |-> span, late |-> FALSE]]
            /\ UNCHANGED <<warnings, last>>
    /\ UNCHANGED <<ctx, tracerVars, bridge, refs, bspans>>

\* bridgeSetTracer.tracer: `if !s.isSet`.
TracerIsSet(g) ==
    /\ bcalls[g].pc = "isSet"
    /\ bcalls' = [bcalls EXCEPT
            ![g].pc = IF Load(g, "isSet") THEN "otelTracer" ELSE "warnOnce",
            ![g].call.late = SetReturned]
    /\ UNCHANGED <<ctx, last, tracerVars, bridge, warnings, refs, bspans>>

\* bridgeSetTracer.tracer: s.warnOnce.Do(...).
TracerWarnOnce(g) ==
    /\ bcalls[g].pc = "warnOnce"
    /\ bridge' = tracerBridge(bridge, FALSE)
    /\ warnings' = tracerWarnings(bridge, warnings, FALSE, bcalls[g].call.late)
    /\ bcalls' = [bcalls EXCEPT ![g].pc = "otelTracer"]
    /\ UNCHANGED <<ctx, last, tracerVars, refs, bspans>>

\* StartSpan goes on: tracer() returns s.otelTracer, and the span is started.
StartSpanReturn(g) ==
    /\ bcalls[g].pc = "otelTracer"
    /\ bcalls[g].call.op = "StartSpan"
    /\ StartSpanOn(bridge, warnings, Load(g, "otelTracer"), bcalls[g].call.references,
                   bcalls[g].call.parent, bcalls[g].call.links)
    /\ bcalls' = [bcalls EXCEPT ![g].pc = "idle", ![g].call = NoCall]
    /\ UNCHANGED <<ctx, mutex, pc, local>>

\* ContextWithSpanHook goes on: tracer() returns s.otelTracer, and a tracer
\* with the deferred setup sets up the context with the span.
ContextWithSpanHookReturn(g) ==
    /\ bcalls[g].pc = "otelTracer"
    /\ bcalls[g].call.op = "ContextWithSpanHook"
    /\ LET call == bcalls[g].call
           otelTracer == Load(g, "otelTracer")
       IN  last' = Op("ContextWithSpanHook", Background, EmptyCarrier,
                      [span |-> call.span,
                       ctx |-> IF DeferredContextSetupTracerExtension(otelTracer)
                               THEN ContextWithSpan(Background, bspans[call.span].otelSpan)
                               ELSE Background])
    /\ bcalls' = [bcalls EXCEPT ![g].pc = "idle", ![g].call = NoCall]
    /\ UNCHANGED <<ctx, tracerVars, bridge, warnings, refs, bspans>>

\* t.SetOpenTelemetryTracer(tracer): two plain stores, and the call returns.
SetOpenTelemetryTracer(g, tracer) ==
    /\ bcalls[g].pc = "idle"
    /\ SetsIssued(Goroutines) < MaxSets
    /\ CallsIssued(Goroutines) < MaxBridgeCalls
    /\ bcalls' = [bcalls EXCEPT
            ![g].buffer = @ \o <<[field |-> "otelTracer", value |-> tracer],
                                 [field |-> "isSet", value |-> TRUE]>>,
            ![g].sets = @ + 1,
            ![g].calls = @ + 1]
    /\ last' = Op("SetOpenTelemetryTracer", Background, EmptyCarrier, [tracer |-> tracer])
    /\ UNCHANGED <<ctx, tracerVars, bridge, warnings, refs, bspans>>

\* The oldest pending store of goroutine g reaches memory.
StoreVisible(g) ==
    /\ bcalls[g].buffer /= <<>>
    /\ bridge' = [bridge EXCEPT
            !.setTracer[Head(bcalls[g].buffer).field] = Head(bcalls[g].buffer).value]
    /\ bcalls' = [bcalls EXCEPT ![g].buffer = Tail(@)]
    /\ UNCHANGED <<ctx, last, tracerVars, warnings, refs, bspans>>

\* span.SetBaggageItem(restrictedKey, value): updateOTelContext, then
\* setBaggageItemOnly on the span reference of the span.
SetBaggageItem(g, span, restrictedKey, value) ==
    /\ bcalls[g].pc = "idle"
    /\ span \in 1..Len(bspans)
    /\ \/ restrictedKey \in DOMAIN bspans[span].extraBaggageItems
       \/ BaggageItemsSet(Len(bspans)) < MaxBaggageItems
    /\ bspans' = [bspans EXCEPT ![span].extraBaggageItems =
                    [k \in DOMAIN @ \cup {restrictedKey} |->
                        IF k = restrictedKey THEN value ELSE @[k]]]
    /\ refs' = setBaggageItem(refs, bspans[span].ctx, restrictedKey, value)
    /\ last' = Op("SetBaggageItem", Background, EmptyCarrier,
                  [span |-> span, restrictedKey |-> restrictedKey, value |-> value])
    /\ UNCHANGED <<ctx, tracerVars, bridge, warnings, bcalls>>

\* err = t.Inject(sm, format, carrier)
BridgeInject(g, sm, format, carrier) ==
    /\ bcalls[g].pc = "idle"
    /\ LET res == BridgeTracerInject(refs, sm, format, carrier)
       IN  last' = Op("BridgeInject", Background, carrier.header,
                      [sm |-> sm, format |-> format, carrierType |-> carrier.type,
                       err |-> res.err, header |-> res.header,
                       propagatorCalls |-> res.propagatorCalls])
    /\ UNCHANGED <<ctx, tracerVars, bridgeVars>>

\* One caller sets the tracer and starts spans from references to the spans
\* started before.
NextBridge ==
    \/ \E references \in ReferenceLists(MaxRefs) : BridgeStartSpan(Caller, references)
    \/ \E tracer \in OTelTracers : SetOpenTelemetryTracer(Caller, tracer)
    \/ StoreVisible(Caller)

SpecBridge == Init /\ [][NextBridge]_vars

\* One caller sets the tracer, starts spans without references and injects
\* span contexts.
NextBridgeInject ==
    \/ BridgeStartSpan(Caller, <<>>)
    \/ \E tracer \in OTelTracers : SetOpenTelemetryTracer(Caller, tracer)
    \/ StoreVisible(Caller)
    \/ \E sm \in SpanContexts, format \in Formats, carrier \in BridgeCarriers :
        BridgeInject(Caller, sm, format, carrier)

SpecBridgeInject == Init /\ [][NextBridgeInject]_vars

\* One caller sets the tracer, starts spans, each from at most one reference,
\* and sets baggage items on them.
NextBaggage ==
    \/ \E references \in ReferenceLists(1) : BridgeStartSpan(Caller, references)
    \/ \E tracer \in OTelTracers : SetOpenTelemetryTracer(Caller, tracer)
    \/ StoreVisible(Caller)
    \/ \E span \in 1..Len(bspans), restrictedKey \in BaggageKeys, value \in BaggageValues :
        SetBaggageItem(Caller, span, restrictedKey, value)

SpecBaggage == Init /\ [][NextBaggage]_vars

\* The goroutines start spans, run the span hook and set the tracer, each at
\* its own pace.
NextBridgeConcurrent ==
    \E g \in Goroutines :
        \/ StartSpanCall(g, <<>>)
        \/ \E span \in {ForeignSpan} \cup (1..Len(bspans)) : ContextWithSpanHook(g, span)
        \/ TracerIsSet(g)
        \/ TracerWarnOnce(g)
        \/ StartSpanReturn(g)
        \/ ContextWithSpanHookReturn(g)
        \/ \E tracer \in OTelTracers : SetOpenTelemetryTracer(g, tracer)
        \/ StoreVisible(g)

SpecBridgeConcurrent == Init /\ [][NextBridgeConcurrent]_vars

----------
(* Reading a traceparent by position, for the statements below *)

Traceparent(cr) == Get(cr, traceparentHeader)

\* The four groups version-traceid-spanid-flags, each of lowercase hex digits
\* and of the right width, with a dash after each of the first three.
HasFourGroups(h) ==
    /\ Len(h) >= 55
    /\ h[3] = "-" /\ h[36] = "-" /\ h[53] = "-"
    /\ \A i \in (1..55) \ {3, 36, 53} : h[i] \in LowerHexChars

ByteAt(h, i) == 16 * HexVals[h[i]] + HexVals[h[i + 1]]
VersionOf(h) == ByteAt(h, 1)
FlagsOf(h) == ByteAt(h, 54)
TraceIDOf(h) == [i \in 1..TraceIDLen |-> ByteAt(h, 2 + 2 * i)]
SpanIDOf(h) == [i \in 1..SpanIDLen |-> ByteAt(h, 35 + 2 * i)]

\* A trailing dash-segment after the four groups.
HasTrailingSegment(h) == Len(h) > 55 /\ h[56] = "-"

\* The four groups are valid but for the flags rule: a version up to fe,
\* identifiers that are not all zero, and a tail only under a version above 00.
OtherwiseValid(h) ==
    /\ HasFourGroups(h)
    /\ VersionOf(h) <= 254
    /\ \E i \in 1..TraceIDLen : TraceIDOf(h)[i] /= 0
    /\ \E i \in 1..SpanIDLen : SpanIDOf(h)[i] /= 0
    /\ \/ Len(h) = 55
       \/ VersionOf(h) > 0 /\ HasTrailingSegment(h) /\ \A i \in 57..Len(h) : h[i] /= "\n"

\* Extract set no remote reference: the remote slot is as it was.
NoRemoteSet == ctx.remote = last.ctx.remote

----------------------------------------------------------------------------
(* C1: GetSpanReferenceAndLinks follows the table of parent resolution: with *)
(* ignoreContext the parent is the empty reference, not remote, and the      *)
(* links are the valid local reference tagged current then the valid remote  *)
(* reference tagged remote; otherwise the local reference if valid, else the *)
(* remote reference if valid (isRemote), else the empty reference, each with *)
(* no links.                                                                 *)
C1_ExpectedLinks(l, r) ==
    (IF IsValid(l) THEN <<Link(l, <<<<"ignored-on-demand", "current">>>>)>> ELSE <<>>)
    \o (IF IsValid(r) THEN <<Link(r, <<<<"ignored-on-demand", "remote">>>>)>> ELSE <<>>)

C1_ParentResolution ==
    last.op = "Resolve" =>
        LET l == last.ctx.span
            r == last.ctx.remote
            got == last.result.got
        IN  CASE last.result.ignoreContext ->
                    /\ got.parent = EmptySpanReference
                    /\ got.isRemote = FALSE
                    /\ got.links = C1_ExpectedLinks(l, r)
              [] ~last.result.ignoreContext /\ IsValid(l) ->
                    got = [parent |-> l, isRemote |-> FALSE, links |-> <<>>]
              [] ~last.result.ignoreContext /\ ~IsValid(l) /\ IsValid(r) ->
                    got = [parent |-> r, isRemote |-> TRUE, links |-> <<>>]
              [] OTHER ->
                    got = [parent |-> EmptySpanReference, isRemote |-> FALSE,
                           links |-> <<>>]

\* Both references valid and different, ignoreContext false: the local one wins.
C1_Witness ==
    /\ last.op = "Resolve"
    /\ ~last.result.ignoreContext
    /\ IsValid(last.ctx.span) /\ IsValid(last.ctx.remote)
    /\ last.ctx.span /= last.ctx.remote
    /\ last.result.got.parent = last.ctx.span
    /\ ~last.result.got.isRemote

----------------------------------------------------------------------------
(* C2: Extract sets no remote reference for a traceparent of version 00 that *)
(* carries a trailing dash-segment after its four groups.                    *)
C2_Version00TrailingRejected ==
    (/\ last.op = "Extract"
     /\ HasFourGroups(Traceparent(last.carrier))
     /\ VersionOf(Traceparent(last.carrier)) = 0
     /\ HasTrailingSegment(Traceparent(last.carrier)))
    => NoRemoteSet

----------------------------------------------------------------------------
(* C3, as stated: Extract sets no remote reference for a traceparent whose   *)
(* flags byte has a bit other than the sampled bit set.                      *)
C3_ReservedBitsRejected ==
    (/\ last.op = "Extract"
     /\ HasFourGroups(Traceparent(last.carrier))
     /\ FlagsOf(Traceparent(last.carrier)) \div 2 /= 0)
    => NoRemoteSet

(* C3, amended: of the otherwise valid traceparents whose flags byte has a   *)
(* bit other than the sampled bit set, Extract rejects those of version 00   *)
(* with a flags byte above 2; it accepts the others (02 under version 00,    *)
(* every such byte under versions 01 to fe) and clears the reserved bits:    *)
(* the remote reference it sets has TraceFlags 0 or 1.                       *)
C3_ReservedBitsClearedOrRejected ==
    (/\ last.op = "Extract"
     /\ OtherwiseValid(Traceparent(last.carrier))
     /\ FlagsOf(Traceparent(last.carrier)) \div 2 /= 0)
    => LET h == Traceparent(last.carrier) IN
       IF VersionOf(h) = 0 /\ FlagsOf(h) > 2
       THEN NoRemoteSet
       ELSE /\ IsValid(ctx.remote)
            /\ ctx.remote.TraceID = TraceIDOf(h)
            /\ ctx.remote.TraceFlags \in {0, 1}
            /\ ctx.remote.TraceFlags = FlagsOf(h) % 2

\* A version 01 header with flags ff is accepted, its reserved bits cleared.
C3_Witness ==
    /\ last.op = "Extract"
    /\ last.ctx = Background
    /\ OtherwiseValid(Traceparent(last.carrier))
    /\ VersionOf(Traceparent(last.carrier)) = 1
    /\ FlagsOf(Traceparent(last.carrier)) = 255
    /\ IsValid(ctx.remote)
    /\ ctx.remote.TraceFlags = 1

----------------------------------------------------------------------------
(* C4: round trip.  For a valid reference r as the current span, Inject into *)
(* an empty carrier and Extract of that carrier into a context with no span  *)
(* give a remote reference with r's TraceID and SpanID and r's TraceFlags    *)
(* masked to the sampled bit.                                                *)
C4_RoundTrip ==
    (/\ last.op = "Inject"
     /\ last.carrier = EmptyCarrier
     /\ IsValid(last.ctx.span))
    => LET r == last.ctx.span
           out == ExtractContext(Background, last.result)
       IN  /\ out.remote.TraceID = r.TraceID
           /\ out.remote.SpanID = r.SpanID
           /\ out.remote.TraceFlags = r.TraceFlags % 2
           /\ out.span = EmptySpanReference

\* The round trip of a reference with reserved flag bits set and zero bytes
\* in its identifiers.
C4_Witness ==
    /\ last.op = "Inject"
    /\ last.carrier = EmptyCarrier
    /\ last.ctx.span = SpanReference(TraceIDB, SpanIDB, 255)
    /\ ExtractContext(Background, last.result).remote = SpanReference(TraceIDB, SpanIDB, 1)

----------------------------------------------------------------------------
(* C5: fail-soft Extract.  For a carrier whose traceparent is malformed,     *)
(* truncated or semantically invalid (a version of ff, an all-zero           *)
(* identifier, a flags byte above 2 or a trailing segment under version 00), *)
(* Extract into a context without references returns a context without a     *)
(* remote reference, from which a span started without new-root resolves to  *)
(* a fresh root.                                                             *)
C5_InvalidTraceparent(h) ==
    /\ h /= <<>>
    /\ \/ ~OtherwiseValid(h)
       \/ VersionOf(h) = 0 /\ FlagsOf(h) > 2

C5_FailSoftExtract ==
    (/\ last.op = "Extract"
     /\ last.ctx.span = EmptySpanReference
     /\ last.ctx.remote = EmptySpanReference
     /\ C5_InvalidTraceparent(Traceparent(last.carrier)))
    => /\ ~IsValid(ctx.remote)
       /\ GetSpanReferenceAndLinks(ctx, FALSE).parent = EmptySpanReference

----------------------------------------------------------------------------------------------------------------------------------------------
(* C6: a span started without new-root on a context with a valid current     *)
(* span or a valid remote reference has the TraceID of the resolved parent   *)
(* (the current span if valid, else the remote reference), a SpanID other    *)
(* than the parent's, and the parent's SpanID as its parent SpanID.          *)
C6_ChildOfResolvedParent ==
    (/\ last.op = "Start"
     /\ ~last.result.newRoot
     /\ IsValid(last.ctx.span) \/ IsValid(last.ctx.remote))
    => LET parent == IF IsValid(last.ctx.span) THEN last.ctx.span ELSE last.ctx.remote
           child == last.result.span
       IN  /\ child.SpanReference.TraceID = parent.TraceID
           /\ child.SpanReference.SpanID /= parent.SpanID
           /\ child.ParentSpanID = parent.SpanID

\* A current span and a remote reference of different traces: the child
\* follows the current span.
C6_Witness ==
    /\ last.op = "Start"
    /\ ~last.result.newRoot
    /\ IsValid(last.ctx.span) /\ IsValid(last.ctx.remote)
    /\ last.ctx.span.TraceID /= last.ctx.remote.TraceID
    /\ last.result.span.SpanReference.TraceID = last.ctx.span.TraceID
    /\ last.result.span.ParentSpanID = last.ctx.span.SpanID

----------------------------------------------------------------------------
----------------------------------------------------------------------------
(* C8: under every interleaving of concurrent Start calls on one tracer, the *)
(* spans have pairwise distinct SpanIDs and, once every call has returned,   *)
(* the recorder's started list holds each span exactly once: as many entries *)
(* as calls.                                                                 *)
C8_SpansOf(g) == {local[g].spans[k] : k \in 1..Len(local[g].spans)}
C8_Created == UNION {C8_SpansOf(g) : g \in Goroutines}
C8_Occurrences(sp) == Cardinality({i \in 1..Len(started) : started[i] = sp})

C8_ConcurrentStarts ==
    /\ \A g, h \in Goroutines :
        \A i \in 1..Len(local[g].spans), j \in 1..Len(local[h].spans) :
            (g /= h \/ i /= j) =>
                local[g].spans[i].SpanReference.SpanID
                    /= local[h].spans[j].SpanReference.SpanID
    /\ (\A g \in Goroutines : pc[g] = "idle") =>
        /\ Len(started) = Issued(Goroutines)
        /\ \A sp \in C8_Created : C8_Occurrences(sp) = 1

\* Two goroutines were inside Start at once, all MaxCalls calls have returned,
\* and the recorder lists the spans in another order than they were created.
C8_Witness ==
    /\ \A g \in Goroutines : pc[g] = "idle"
    /\ Issued(Goroutines) = MaxCalls
    /\ Len(started) = MaxCalls
    /\ \E g, h \in Goroutines : g /= h /\ local[g].spans /= <<>> /\ local[h].spans /= <<>>
    /\ \E i, j \in 1..Len(started) :
        /\ i < j
        /\ started[i].SpanReference.SpanID[SpanIDLen] > started[j].SpanReference.SpanID[SpanIDLen]

----------------------------------------------------------------------------
(* C9: a Start call notifies the span recorder of its span exactly once, and *)
(* before it returns; when one caller issues the calls one after the other,  *)
(* the k-th entry of the started list is the span of the k-th call.          *)
C9_NotifiedOnceInOrder ==
    /\ \A g \in Goroutines :
        \A k \in 1..Len(local[g].spans) :
            LET sp == local[g].spans[k]
                returned == k < Len(local[g].spans) \/ pc[g] = "idle"
            IN  /\ C8_Occurrences(sp) <= 1
                /\ returned => C8_Occurrences(sp) = 1
    /\ \A g \in Goroutines :
        (\A h \in Goroutines \ {g} : local[h].spans = <<>>) =>
            \A k \in 1..Len(started) : started[k] = local[g].spans[k]

\* One caller has made all the calls and the recorder lists them in call order.
C9_Witness ==
    \E g \in Goroutines :
        /\ pc[g] = "idle"
        /\ Len(local[g].spans) = MaxCalls
        /\ MaxCalls >= 2
        /\ started = local[g].spans

----------
(* C10: the flags rule of Extract for an otherwise valid traceparent: under  *)
(* version 00 it is rejected exactly when the flags byte is above 2; under   *)
(* versions 01 to fe every flags byte is accepted; an accepted header sets a *)
(* remote reference whose TraceFlags is the flags byte ANDed with the        *)
(* sampled bit.                                                              *)
C10_FlagsRule ==
    (/\ last.op = "Extract"
     /\ OtherwiseValid(Traceparent(last.carrier)))
    => LET h == Traceparent(last.carrier)
           rejected == extract(last.carrier) = EmptySpanReference
       IN  /\ VersionOf(h) = 0 => (rejected <=> FlagsOf(h) > 2)
           /\ VersionOf(h) \in 1..254 => ~rejected
           /\ rejected => NoRemoteSet
           /\ ~rejected =>
                ctx.remote = SpanReference(TraceIDOf(h), SpanIDOf(h), FlagsOf(h) % 2)

\* Version 00 with flags 02 is accepted, and the reference is not sampled.
C10_Witness ==
    /\ last.op = "Extract"
    /\ last.ctx = Background
    /\ OtherwiseValid(Traceparent(last.carrier))
    /\ VersionOf(Traceparent(last.carrier)) = 0
    /\ FlagsOf(Traceparent(last.carrier)) = 2
    /\ ctx.remote = SpanReference(TraceIDA, SpanIDA, 0)

----------------------------------------------------------------------------
(* C11: Extract sets no remote reference for a traceparent whose traceid     *)
(* group is all zeros or whose spanid group is all zeros, whatever its       *)
(* version and flags groups are.                                             *)
C11_ZeroIDRejected ==
    (/\ last.op = "Extract"
     /\ HasFourGroups(Traceparent(last.carrier))
     /\ \/ TraceIDOf(Traceparent(last.carrier)) = ZeroBytes(TraceIDLen)
        \/ SpanIDOf(Traceparent(last.carrier)) = ZeroBytes(SpanIDLen))
    => NoRemoteSet

\* A version 01 header with a trailing segment whose spanid alone is zero,
\* extracted into a context that holds a valid remote reference: it stays.
C11_Witness ==
    /\ last.op = "Extract"
    /\ HasFourGroups(Traceparent(last.carrier))
    /\ VersionOf(Traceparent(last.carrier)) \in 1..254
    /\ HasTrailingSegment(Traceparent(last.carrier))
    /\ TraceIDOf(Traceparent(last.carrier)) /= ZeroBytes(TraceIDLen)
    /\ SpanIDOf(Traceparent(last.carrier)) = ZeroBytes(SpanIDLen)
    /\ IsValid(last.ctx.remote)
    /\ ctx.remote = last.ctx.remote

----------------------------------------------------------------------------
(* C12: Extract sets no remote reference for a traceparent of version ff,    *)
(* whatever its other fields are; a version of 00 to fe is not rejected for  *)
(* its value alone: a header of such a version with nonzero identifiers, a   *)
(* flags byte up to 02 and no trailing segment sets the remote reference.    *)
C12_VersionRule ==
    (/\ last.op = "Extract"
     /\ HasFourGroups(Traceparent(last.carrier)))
    => LET h == Traceparent(last.carrier) IN
       /\ VersionOf(h) = 255 => NoRemoteSet
       /\ (/\ VersionOf(h) \in 0..254
           /\ TraceIDOf(h) /= ZeroBytes(TraceIDLen)
           /\ SpanIDOf(h) /= ZeroBytes(SpanIDLen)
           /\ FlagsOf(h) <= 2
           /\ Len(h) = 55)
          => ctx.remote = SpanReference(TraceIDOf(h), SpanIDOf(h), FlagsOf(h) % 2)

\* A version ff header, valid in every other field, sets nothing.
C12_Witness ==
    /\ last.op = "Extract"
    /\ last.ctx = Background
    /\ HasFourGroups(Traceparent(last.carrier))
    /\ VersionOf(Traceparent(last.carrier)) = 255
    /\ TraceIDOf(Traceparent(last.carrier)) = TraceIDA
    /\ SpanIDOf(Traceparent(last.carrier)) = SpanIDA
    /\ FlagsOf(Traceparent(last.carrier)) = 1
    /\ Len(Traceparent(last.carrier)) = 55
    /\ ctx.remote = EmptySpanReference

----------------------------------------------------------------------------
(* C13: Inject on a context whose current span reference is invalid leaves   *)
(* the traceparent key of the carrier as it was; it writes the tracestate    *)
(* key when the context holds a tracestate; and no Inject writes a key other *)
(* than traceparent and tracestate.                                          *)
C13_InjectFrame ==
    last.op = "Inject" =>
        /\ ~IsValid(last.ctx.span) =>
            /\ (traceparentHeader \in DOMAIN last.result)
                   <=> (traceparentHeader \in DOMAIN last.carrier)
            /\ Get(last.result, traceparentHeader) = Get(last.carrier, traceparentHeader)
        /\ last.ctx.tracestate /= NoValue =>
            /\ tracestateHeader \in DOMAIN last.result
            /\ last.result[tracestateHeader] = last.ctx.tracestate
        /\ \A k \in (DOMAIN last.result \cup DOMAIN last.carrier)
                        \ {traceparentHeader, tracestateHeader} :
            /\ k \in DOMAIN last.result /\ k \in DOMAIN last.carrier
            /\ last.result[k] = last.carrier[k]
        /\ \A i \in 1..Len(Fields) : Fields[i] \in {traceparentHeader, tracestateHeader}

\* A context with a half-set current span and a tracestate, injected into a
\* carrier with a stale traceparent: the traceparent stays, the tracestate is
\* written.
C13_Witness ==
    /\ last.op = "Inject"
    /\ ~IsValid(last.ctx.span)
    /\ last.ctx.span /= EmptySpanReference
    /\ last.ctx.tracestate /= NoValue
    /\ traceparentHeader \in DOMAIN last.carrier
    /\ last.result[traceparentHeader] = last.carrier[traceparentHeader]
    /\ tracestateHeader \notin DOMAIN last.carrier
    /\ last.result[tracestateHeader] = last.ctx.tracestate

----------------------------------------------------------------------------
(* C14: tracestate pass-through.  Extract stores a non-empty tracestate of   *)
(* the carrier in the context, whether the traceparent is present, valid or  *)
(* not, and Inject of that context writes exactly that value to the          *)
(* tracestate key of the outgoing carrier; Extract from a carrier with an    *)
(* empty tracestate leaves the tracestate of the context as it was.          *)
C14_SameTracestate(a, b) ==
    IF a = NoValue \/ b = NoValue THEN a = NoValue /\ b = NoValue ELSE a = b

C14_TracestatePassThrough ==
    /\ last.op = "Extract" =>
        LET s == Get(last.carrier, tracestateHeader) IN
        IF s /= <<>>
        THEN /\ C14_SameTracestate(ctx.tracestate, s)
             /\ \A out \in OutgoingCarriers :
                    Get(InjectCarrier(ctx, out), tracestateHeader) = s
        ELSE C14_SameTracestate(ctx.tracestate, last.ctx.tracestate)
    /\ (last.op = "Inject" /\ last.ctx.tracestate /= NoValue) =>
        Get(last.result, tracestateHeader) = last.ctx.tracestate

\* A context holding one tracestate extracts another one from a carrier whose
\* traceparent is broken: the new one replaces it.
C14_Witness ==
    /\ last.op = "Extract"
    /\ last.ctx.tracestate /= NoValue
    /\ Get(last.carrier, tracestateHeader) /= <<>>
    /\ last.ctx.tracestate /= Get(last.carrier, tracestateHeader)
    /\ Traceparent(last.carrier) /= <<>>
    /\ ~IsValid(extract(last.carrier))
    /\ C14_SameTracestate(ctx.tracestate, Get(last.carrier, tracestateHeader))

----------------------------------------------------------------------------
(* C15: Extract leaves the current span of the context as it was; when it    *)
(* accepts the traceparent it sets the remote reference, so a context with a *)
(* valid current span resolves that span as the parent, not remote, after    *)
(* Extract as before.                                                        *)
C15_LocalSlotKept ==
    last.op = "Extract" =>
        /\ ctx.span = last.ctx.span
        /\ IsValid(extract(last.carrier)) => ctx.remote = extract(last.carrier)
        /\ IsValid(last.ctx.span) =>
            GetSpanReferenceAndLinks(ctx, FALSE) =
                [parent |-> last.ctx.span, isRemote |-> FALSE, links |-> <<>>]

\* A context with a valid current span extracts a valid traceparent of
\* another trace: the remote reference is set, the parent is the current span.
C15_Witness ==
    /\ last.op = "Extract"
    /\ IsValid(last.ctx.span)
    /\ IsValid(extract(last.carrier))
    /\ extract(last.carrier).TraceID /= last.ctx.span.TraceID
    /\ last.ctx.remote /= extract(last.carrier)
    /\ ctx.remote = extract(last.carrier)
    /\ GetSpanReferenceAndLinks(ctx, FALSE).parent = last.ctx.span

----------------------------------------------------------------------------
(* C16: StartSpan splits its references so that the parent is the first      *)
(* ChildOf reference to a bridge span reference (nil if there is none),      *)
(* every other reference to a bridge span reference becomes one link, in the *)
(* order of the references, tagged ot-span-reference-type=extra-child-of for *)
(* ChildOf and follows-from-ref for FollowsFrom, references to a foreign     *)
(* context yield nothing, and so the links and the parent together are as    *)
(* many as the references to bridge span references.                         *)
C16_ParentAndLinks ==
    last.op = "BridgeStartSpan" =>
        LET parent == last.result.parent
            links == last.result.links
            bridgeRefs == SelectSeq(last.result.references,
                                    LAMBDA r : r.ReferencedContext.bridge)
            childOf == {i \in 1..Len(bridgeRefs) : bridgeRefs[i].Type = ChildOfRef}
            first == IF childOf = {} THEN 0
                     ELSE CHOOSE i \in childOf : \A j \in childOf : i <= j
            others == [i \in 1..(Len(bridgeRefs) - (IF first = 0 THEN 0 ELSE 1)) |->
                          bridgeRefs[IF first /= 0 /\ i >= first THEN i + 1 ELSE i]]
        IN  /\ parent = IF first = 0 THEN NilRef
                        ELSE bridgeRefs[first].ReferencedContext.addr
            /\ Len(links) = Len(others)
            /\ \A i \in 1..Len(others) :
                /\ links[i].SpanReference =
                       refs[others[i].ReferencedContext.addr].otelSpanReference
                /\ Len(links[i].Attributes) = 1
                /\ links[i].Attributes[1][1] = "ot-span-reference-type"
                /\ others[i].Type = ChildOfRef =>
                       links[i].Attributes[1][2] = "extra-child-of"
                /\ others[i].Type = FollowsFromRef =>
                       links[i].Attributes[1][2] = "follows-from-ref"
            /\ Len(links) + (IF parent = NilRef THEN 0 ELSE 1) = Len(bridgeRefs)

\* A span is started from a FollowsFrom reference to a span of a set tracer,
\* a ChildOf reference to a foreign context and two ChildOf references to
\* bridge spans: the first of the two is the parent, the FollowsFrom
\* reference and the second are the links, in that order.
C16_Witness ==
    /\ last.op = "BridgeStartSpan"
    /\ Len(last.result.references) = 3
    /\ last.result.references[1].Type = FollowsFromRef
    /\ last.result.references[1].ReferencedContext.bridge
    /\ IsValid(refs[last.result.references[1].ReferencedContext.addr].otelSpanReference)
    /\ last.result.references[2] = [Type |-> ChildOfRef, ReferencedContext |-> ForeignContext]
    /\ last.result.references[3].Type = ChildOfRef
    /\ last.result.references[3].ReferencedContext.bridge
    /\ last.result.parent = last.result.references[3].ReferencedContext.addr
    /\ Len(last.result.links) = 1
    /\ last.result.links[1].Attributes = <<<<"ot-span-reference-type", "follows-from-ref">>>>

----------------------------------------------------------------------------
(* C17: Inject of the bridge returns ErrInvalidSpanContext when the span     *)
(* context is not a bridge span reference or its OpenTelemetry reference is  *)
(* invalid, else ErrUnsupportedFormat when the format is not HTTPHeaders,    *)
(* else ErrInvalidCarrier when the carrier is not an HTTPHeadersCarrier;     *)
(* with an error the carrier is as it was and the propagator was not called, *)
(* without one the propagator's Inject was called exactly once.              *)
C17_InjectErrors ==
    last.op = "BridgeInject" =>
        LET sm == last.result.sm
            invalidSpanContext ==
                IF sm.bridge THEN ~IsValid(refs[sm.addr].otelSpanReference) ELSE TRUE
            expected ==
                IF invalidSpanContext THEN ErrInvalidSpanContext
                ELSE IF last.result.format /= HTTPHeaders THEN ErrUnsupportedFormat
                ELSE IF last.result.carrierType /= "HTTPHeadersCarrier" THEN ErrInvalidCarrier
                ELSE NoError
        IN  /\ last.result.err = expected
            /\ last.result.err /= NoError =>
                /\ last.result.header = last.carrier
                /\ last.result.propagatorCalls = <<>>
            /\ last.result.err = NoError => Len(last.result.propagatorCalls) = 1

\* Inject is given the span context of a span of the no-op tracer, a format
\* that is not HTTPHeaders and a carrier that is not an HTTPHeadersCarrier
\* and holds headers: all three checks would fail, the error is
\* ErrInvalidSpanContext and the headers are as they were.
C17_Witness ==
    /\ last.op = "BridgeInject"
    /\ last.result.sm.bridge
    /\ ~IsValid(refs[last.result.sm.addr].otelSpanReference)
    /\ last.result.format /= HTTPHeaders
    /\ last.result.carrierType /= "HTTPHeadersCarrier"
    /\ last.carrier /= EmptyCarrier
    /\ last.result.err = ErrInvalidSpanContext
    /\ last.result.header = last.carrier

\* Inject is given the span context of a span of a set tracer, HTTPHeaders
\* and an HTTPHeadersCarrier: no error, one call of the propagator, and the
\* carrier holds a traceparent it did not hold before.
C17_WitnessInjected ==
    /\ last.op = "BridgeInject"
    /\ last.result.err = NoError
    /\ Len(last.result.propagatorCalls) = 1
    /\ Get(last.carrier, traceparentHeader) = <<>>
    /\ Get(last.result.header, traceparentHeader) /= <<>>
    /\ last.result.propagatorCalls[1].carrier = last.carrier

----------------------------------------------------------------------------
(* C18: the span reference StartSpan creates from a parent holds every       *)
(* baggage item of the parent as it is at that time; every span has a span   *)
(* reference of its own, and a step changes the baggage items of a span      *)
(* reference only when it is SetBaggageItem on the span of that reference,   *)
(* so a later write on the child or on the parent never shows on the other.  *)
C18_Inherited ==
    (last.op = "BridgeStartSpan" /\ last.result.parent /= NilRef) =>
        LET parentItems == refs[last.result.parent].baggageItems
            childItems == refs[bspans[last.result.span].ctx].baggageItems
        IN  \A k \in DOMAIN parentItems :
                k \in DOMAIN childItems /\ childItems[k] = parentItems[k]

C18_OwnReference ==
    \A i, j \in 1..Len(bspans) : i /= j => bspans[i].ctx /= bspans[j].ctx

C18_OnlyOwnWrites ==
    \A a \in 1..Len(refs) :
        refs'[a].baggageItems /= refs[a].baggageItems =>
            /\ last'.op = "SetBaggageItem"
            /\ bspans[last'.result.span].ctx = a

\* C18: a span reference created from a parent holds every baggage item of
\* the parent at that time, and afterwards SetBaggageItem on the child or on
\* the parent changes the baggage items of that one only.
C18_BaggageInheritedAndIsolated ==
    [](C18_Inherited /\ C18_OwnReference) /\ [][C18_OnlyOwnWrites]_vars

\* A span of a set tracer has the item k=... set, a child is started from it
\* and holds the item under the canonical key K; then the item is set to
\* another value on the parent: the child still holds the value it took.
C18_Witness ==
    /\ last.op = "SetBaggageItem"
    /\ last.result.restrictedKey = <<"k">>
    /\ \E c \in 1..Len(bspans), i \in 1..Len(started) :
        LET parent == bspans[last.result.span]
            child == bspans[c]
            key == CanonicalHeaderKey(last.result.restrictedKey)
        IN  /\ c /= last.result.span
            /\ IsValid(parent.otelSpan)
            /\ started[i].SpanReference = child.otelSpan
            /\ started[i].ParentSpanID = parent.otelSpan.SpanID
            /\ key = <<"K">>
            /\ key \in DOMAIN refs[child.ctx].baggageItems
            /\ refs[child.ctx].baggageItems[key] /= last.result.value
            /\ refs[parent.ctx].baggageItems[key] = last.result.value

----------------------------------------------------------------------------
(* C19: over the StartSpan, ContextWithSpanHook and SetOpenTelemetryTracer   *)
(* calls of concurrent callers, the warning that the tracer is not set is    *)
(* delivered at most once, and never for a tracer lookup that was made after *)
(* a SetOpenTelemetryTracer call had returned.                               *)
C19_WarnedOnceNeverAfterSet ==
    /\ Len(SelectSeq(warnings, LAMBDA w : w.msg = TracerNotSetWarning)) <= 1
    /\ \A i \in 1..Len(warnings) :
        warnings[i].msg = TracerNotSetWarning => ~warnings[i].late

====
